---- MODULE Spec2Model ----
(***************************************************************************)
(* Model of db_migrate.go: main (the orchestrator), migrateDB (the          *)
(* per-store migrator) and the progress goroutine it starts.                *)
(*                                                                          *)
(* A directory is a function from entry names to entries.  An entry is a    *)
(* record [kind, data]: kind is "absent", the backend that owns the store   *)
(* directory ("goleveldb", "pebbledb"), or "damaged" for a directory that   *)
(* a failed os.RemoveAll left half removed; data maps keys to values.       *)
(***************************************************************************)
EXTENDS Integers, Sequences, FiniteSets, TLC

\* ------------------------------------------------------------------ bounds
\* The commit period.  db_migrate.go:138 uses the literal 10000; the model
\* is parametric in it and is checked with a scaled-down period.
Threshold == 3
\* The swept store holds 0 .. MaxBatches * Threshold + 1 records.
MaxBatches == 2

MaxRecords == MaxBatches * Threshold + 1

\* --------------------------------------------------------------- constants
cometBFTDatabases == <<"blockstore", "state", "tx_index", "evidence">>

lightClientDBName == "light-client-db"

oldDBBackend == "goleveldb"

PebbleDBBackend == "pebbledb"

DBNames == {cometBFTDatabases[i] : i \in 1..Len(cometBFTDatabases)} \cup {lightClientDBName}

\* An entry of the live directory that is no database (the consensus WAL).
OtherEntry == "cs.wal"

EntryNames == DBNames \cup {OtherEntry}

NoEntry == [kind |-> "absent", data |-> <<>>]

VARIABLES
    dataDir,      \* the live data directory (*dataDir)
    dataDir0,     \* its content when the run started
    tempExists,   \* whether the staging directory (*tempDir) exists
    tempDir,      \* the entries of the staging directory
    pc,           \* position of the main goroutine
    dbIdx,        \* index of the range loop over cometBFTDatabases (line 29)
    dbName,       \* the store migrateDB is working on
    oldDB,        \* source handle: "closed" or "open"
    newDB,        \* destination handle: "closed" or "open"
    iter,         \* the iterator: [open, keys, pos]
    batch,        \* the open batch: sequence of [key, value]
    totalCount,   \* totalCount of each migrateDB invocation
    ticker,       \* progressTicker of each invocation: "none", "running", "stopped"
    tickC,        \* whether a tick is buffered in progressTicker.C
    reporter,     \* the goroutine of each invocation: "none" or "select"
    display,      \* the last "Migrated %d records..." line: [by, count]
    err,          \* the error migrateDB returned
    exitMsg,      \* the message of fatalf, "" while running or on success
    confirmed,    \* result of promptYesNo: "unasked", "yes", "no"
    entries,      \* the entries of os.ReadDir still to be processed
    commits,      \* per store, the batches WriteSync has committed, in order
    staged        \* the staging directory as os.ReadDir found it

vars == <<dataDir, dataDir0, tempExists, tempDir, pc, dbIdx, dbName, oldDB,
          newDB, iter, batch, totalCount, ticker, tickC, reporter, display,
          err, exitMsg, confirmed, entries, commits, staged>>

fsVars == <<dataDir, dataDir0, tempExists, tempDir>>

dbVars == <<oldDB, newDB, iter, batch, totalCount, commits>>

repVars == <<ticker, tickC, reporter, display>>

swapVars == <<confirmed, entries, staged>>

\* ----------------------------------------------------------- store content
Min(S) == CHOOSE x \in S : \A y \in S : x <= y

RECURSIVE SortedKeys(_)
\* The keys of a store in iteration order (ascending), as Iterator(nil, nil)
\* yields them.
SortedKeys(S) == IF S = {} THEN <<>> ELSE <<Min(S)>> \o SortedKeys(S \ {Min(S)})

StoreIndex(name) ==
    IF name = lightClientDBName THEN 5
    ELSE CHOOSE i \in 1..Len(cometBFTDatabases) : cometBFTDatabases[i] = name

\* The records of a store of n records: keys 1..n, values distinct from the
\* keys and from the values of every other store.
StoreData(name, n) == [k \in 1..n |-> 100 * StoreIndex(name) + k]

\* The number of records of each store, given the size n of the swept one.
StoreSize(name, n) ==
    CASE name = "blockstore" -> n
      [] name = "state" -> Threshold
      [] name = "tx_index" -> 1
      [] name = "evidence" -> 0
      [] OTHER -> 2

\* The records of a store in iteration order.
Records(data) ==
    LET ks == SortedKeys(DOMAIN data)
    IN [i \in 1..Len(ks) |-> [key |-> ks[i], value |-> data[ks[i]]]]

RECURSIVE WriteBatch(_, _)
\* The store content after a batch is applied: the Sets in order.
WriteBatch(data, b) ==
    IF b = <<>> THEN data
    ELSE LET r == Head(b)
             d == [k \in DOMAIN data \cup {r.key} |->
                      IF k = r.key THEN r.value ELSE data[k]]
         IN WriteBatch(d, Tail(b))

\* Mutant of NewDB: the store directory is created afresh on every open.
NewDB_recreate(dir, name, backend) ==
    [dir EXCEPT ![name] = [kind |-> backend, data |-> <<>>]]

\* db.NewDB(name, backend, dir): opens the store directory, creating an
\* empty one when dir holds none.
NewDB(dir, name, backend) ==
    IF dir[name].kind = "absent"
    THEN [dir EXCEPT ![name] = [kind |-> backend, data |-> <<>>]]
    ELSE dir

\* ------------------------------------------------------------------- Init
\* The data directory of a node that has run with the default configuration:
\* the four stores exist, the light-client store may, the staging directory
\* may exist and is empty.
Init ==
    \E n \in 0..MaxRecords, light \in BOOLEAN, te \in BOOLEAN :
        /\ dataDir = [e \in EntryNames |->
               IF e = OtherEntry THEN [kind |-> "file", data |-> <<>>]
               ELSE IF e = lightClientDBName /\ ~light THEN NoEntry
               ELSE [kind |-> oldDBBackend, data |-> StoreData(e, StoreSize(e, n))]]
        /\ dataDir0 = dataDir
        /\ tempExists = te
        /\ tempDir = [e \in EntryNames |-> NoEntry]
        /\ pc = "mkdir"
        /\ dbIdx = 0
        /\ dbName = ""
        /\ oldDB = "closed"
        /\ newDB = "closed"
        /\ iter = [open |-> FALSE, keys |-> <<>>, pos |-> 1]
        /\ batch = <<>>
        /\ totalCount = [s \in DBNames |-> 0]
        /\ ticker = [s \in DBNames |-> "none"]
        /\ tickC = [s \in DBNames |-> FALSE]
        /\ reporter = [s \in DBNames |-> "none"]
        /\ display = [by |-> "", count |-> 0]
        /\ err = "nil"
        /\ exitMsg = ""
        /\ confirmed = "unasked"
        /\ entries = <<>>
        /\ commits = [s \in DBNames |-> <<>>]
        /\ staged = [e \in EntryNames |-> NoEntry]

\* ---------------------------------------------------------------- helpers
Running == pc \notin {"done", "failed"}

\* fatalf (lines 187-190): print the message and os.Exit(1); the exit ends
\* every goroutine of the process.
fatalf(msg) ==
    /\ pc' = "failed"
    /\ exitMsg' = msg
    /\ reporter' = [s \in DBNames |-> "none"]

\* iter.Valid(), iter.Key(), iter.Value()
Valid == iter.pos <= Len(iter.keys)

Key == iter.keys[iter.pos]

\* Mutant of Value: the key is stored as the value.
Value_key == Key

Value == dataDir[dbName].data[Key]

\* Mutant of NewBatch: the committed batch is kept instead of replaced.
NewBatch_kept == batch

\* newDB.NewBatch()
NewBatch == <<>>

\* Mutant of Return: the Close calls are not deferred but made at the end of
\* migrateDB, so an error return skips them.
Return_leak(e) ==
    /\ err' = e
    /\ pc' = "check_err"
    /\ ticker' = [ticker EXCEPT ![dbName] = IF @ = "running" THEN "stopped" ELSE @]
    /\ \E drained \in BOOLEAN :
           tickC' = IF drained THEN [tickC EXCEPT ![dbName] = FALSE] ELSE tickC
    /\ iter' = IF e = "nil" THEN [iter EXCEPT !.open = FALSE] ELSE iter
    /\ newDB' = IF e = "nil" THEN "closed" ELSE newDB
    /\ oldDB' = IF e = "nil" THEN "closed" ELSE oldDB

\* A return of migrateDB with error e ("nil" for none) and the deferred calls
\* registered so far, last first: progressTicker.Stop (line 112), iter.Close
\* (105), newDB.Close (98), oldDB.Close (92).  Stop sends no further tick; a
\* tick already buffered in progressTicker.C stays or is drained, depending
\* on the Go release the tool is built with.
Return(e) ==
    /\ err' = e
    /\ pc' = "check_err"
    /\ ticker' = [ticker EXCEPT ![dbName] = IF @ = "running" THEN "stopped" ELSE @]
    /\ \E drained \in BOOLEAN :
           tickC' = IF drained THEN [tickC EXCEPT ![dbName] = FALSE] ELSE tickC
    /\ iter' = [iter EXCEPT !.open = FALSE]
    /\ newDB' = "closed"
    /\ oldDB' = "closed"

\* Mutant of WriteSync: the commit writes nothing.
WriteSync_none(dir) == dir

\* batch.WriteSync(): the batch becomes part of the destination store.
WriteSync(dir) == [dir EXCEPT ![dbName].data = WriteBatch(@, batch)]

\* ------------------------------------------------------------------- main
\* line 23: os.MkdirAll(*tempDir)
MkdirAll ==
    /\ pc = "mkdir"
    /\ \E ok \in BOOLEAN :
          IF ok
          THEN /\ tempExists' = TRUE
               /\ pc' = "range"
               /\ UNCHANGED <<exitMsg, reporter>>
          ELSE /\ fatalf("Failed to create the temporary directory")
               /\ UNCHANGED tempExists
    /\ UNCHANGED <<dataDir, dataDir0, tempDir, dbIdx, dbName, dbVars, ticker,
                   tickC, display, err, swapVars>>

\* Mutant of RangeNext: the list is walked from its end.
RangeNext_reversed ==
    /\ pc = "range"
    /\ IF dbIdx < Len(cometBFTDatabases)
       THEN /\ dbIdx' = dbIdx + 1
            /\ dbName' = cometBFTDatabases[Len(cometBFTDatabases) - dbIdx]
            /\ pc' = "open_old"
       ELSE /\ pc' = "stat_light"
            /\ UNCHANGED <<dbIdx, dbName>>
    /\ UNCHANGED <<fsVars, dbVars, repVars, err, exitMsg, swapVars>>

\* lines 29-31: the next store of cometBFTDatabases, or on to the light client
RangeNext ==
    /\ pc = "range"
    /\ IF dbIdx < Len(cometBFTDatabases)
       THEN /\ dbIdx' = dbIdx + 1
            /\ dbName' = cometBFTDatabases[dbIdx + 1]
            /\ pc' = "open_old"
       ELSE /\ pc' = "stat_light"
            /\ UNCHANGED <<dbIdx, dbName>>
    /\ UNCHANGED <<fsVars, dbVars, repVars, err, exitMsg, swapVars>>

\* Mutant of StatLight: the light client store is migrated without the Stat.
StatLight_noStat ==
    /\ pc = "stat_light"
    /\ dbName' = lightClientDBName
    /\ pc' = "open_old"
    /\ UNCHANGED <<fsVars, dbIdx, dbVars, repVars, err, exitMsg, swapVars>>

\* lines 37-40: os.Stat of the light-client store
StatLight ==
    /\ pc = "stat_light"
    /\ IF dataDir[lightClientDBName].kind # "absent"
       THEN /\ dbName' = lightClientDBName
            /\ pc' = "open_old"
       ELSE /\ pc' = "prompt"
            /\ UNCHANGED dbName
    /\ UNCHANGED <<fsVars, dbIdx, dbVars, repVars, err, exitMsg, swapVars>>

\* Mutant of CheckErr: the error of migrateDB is dropped.
CheckErr_ignored ==
    /\ pc = "check_err"
    /\ pc' = IF dbName = lightClientDBName THEN "prompt" ELSE "range"
    /\ UNCHANGED <<fsVars, dbIdx, dbName, dbVars, repVars, err, exitMsg,
                   swapVars>>

\* lines 31-33 and 40-42: the error check after migrateDB
CheckErr ==
    /\ pc = "check_err"
    /\ IF err # "nil"
       THEN fatalf("Failed to migrate")
       ELSE /\ pc' = IF dbName = lightClientDBName THEN "prompt" ELSE "range"
            /\ UNCHANGED <<exitMsg, reporter>>
    /\ UNCHANGED <<fsVars, dbIdx, dbName, dbVars, ticker, tickC, display, err,
                   swapVars>>

\* -------------------------------------------------------------- migrateDB
\* lines 88-92: open the source store
OpenOld ==
    /\ pc = "open_old"
    /\ \E ok \in BOOLEAN :
          IF ok
          THEN /\ dataDir' = NewDB(dataDir, dbName, oldDBBackend)
               /\ oldDB' = "open"
               /\ pc' = "open_new"
               /\ UNCHANGED <<err, newDB, iter, ticker, tickC>>
          ELSE /\ Return("open")
               /\ UNCHANGED dataDir
    /\ UNCHANGED <<dataDir0, tempExists, tempDir, dbIdx, dbName, batch,
                   totalCount, commits, reporter, display, exitMsg, swapVars>>

\* lines 94-98: open the destination store
OpenNew ==
    /\ pc = "open_new"
    /\ \E ok \in BOOLEAN :
          IF ok
          THEN /\ tempDir' = NewDB(tempDir, dbName, PebbleDBBackend)
               /\ newDB' = "open"
               /\ pc' = "iterator"
               /\ UNCHANGED <<err, oldDB, iter, ticker, tickC>>
          ELSE /\ Return("open")
               /\ UNCHANGED tempDir
    /\ UNCHANGED <<dataDir, dataDir0, tempExists, dbIdx, dbName, batch,
                   totalCount, commits, reporter, display, exitMsg, swapVars>>

\* lines 101-105: oldDB.Iterator(nil, nil)
Iterator ==
    /\ pc = "iterator"
    /\ \E ok \in BOOLEAN :
          IF ok
          THEN /\ iter' = [open |-> TRUE,
                           keys |-> SortedKeys(DOMAIN dataDir[dbName].data),
                           pos |-> 1]
               /\ pc' = "start"
               /\ UNCHANGED <<err, oldDB, newDB, ticker, tickC>>
          ELSE Return("iterator")
    /\ UNCHANGED <<fsVars, dbIdx, dbName, batch, totalCount, commits, reporter,
                   display, exitMsg, swapVars>>

\* Mutant of StartReporter: the go statement is missing.
StartReporter_noGoroutine ==
    /\ pc = "start"
    /\ batch' = NewBatch
    /\ totalCount' = [totalCount EXCEPT ![dbName] = 0]
    /\ ticker' = [ticker EXCEPT ![dbName] = "running"]
    /\ tickC' = [tickC EXCEPT ![dbName] = FALSE]
    /\ pc' = "loop"
    /\ UNCHANGED <<fsVars, dbIdx, dbName, oldDB, newDB, iter, commits, display,
                   reporter, err, exitMsg, swapVars>>

\* lines 107-127: the first batch, the counter, the ticker, the channel and
\* the progress goroutine
StartReporter ==
    /\ pc = "start"
    /\ batch' = NewBatch
    /\ totalCount' = [totalCount EXCEPT ![dbName] = 0]
    /\ ticker' = [ticker EXCEPT ![dbName] = "running"]
    /\ tickC' = [tickC EXCEPT ![dbName] = FALSE]
    /\ reporter' = [reporter EXCEPT ![dbName] = "select"]
    /\ pc' = "loop"
    /\ UNCHANGED <<fsVars, dbIdx, dbName, oldDB, newDB, iter, commits, display,
                   err, exitMsg, swapVars>>

\* Mutant of LoopBody: the threshold test reads the count before the
\* increment.
LoopBody_preIncrement ==
    /\ pc = "loop"
    /\ Valid
    /\ \E ok \in BOOLEAN :
          IF ok
          THEN /\ batch' = Append(batch, [key |-> Key, value |-> Value])
               /\ totalCount' = [totalCount EXCEPT ![dbName] = @ + 1]
               /\ IF totalCount[dbName] % Threshold = 0
                  THEN /\ pc' = "notify"
                       /\ UNCHANGED iter
                  ELSE /\ pc' = "loop"
                       /\ iter' = [iter EXCEPT !.pos = @ + 1]
               /\ UNCHANGED <<err, oldDB, newDB, ticker, tickC>>
          ELSE /\ Return("batch set")
               /\ UNCHANGED <<batch, totalCount>>
    /\ UNCHANGED <<fsVars, dbIdx, dbName, commits, reporter, display, exitMsg,
                   swapVars>>

\* lines 129-138: one record into the batch, the count, the threshold test
LoopBody ==
    /\ pc = "loop"
    /\ Valid
    /\ \E ok \in BOOLEAN :
          IF ok
          THEN /\ batch' = Append(batch, [key |-> Key, value |-> Value])
               /\ totalCount' = [totalCount EXCEPT ![dbName] = @ + 1]
               /\ IF (totalCount[dbName] + 1) % Threshold = 0
                  THEN /\ pc' = "notify"
                       /\ UNCHANGED iter
                  ELSE /\ pc' = "loop"
                       /\ iter' = [iter EXCEPT !.pos = @ + 1]
               /\ UNCHANGED <<err, oldDB, newDB, ticker, tickC>>
          ELSE /\ Return("batch set")
               /\ UNCHANGED <<batch, totalCount>>
    /\ UNCHANGED <<fsVars, dbIdx, dbName, commits, reporter, display, exitMsg,
                   swapVars>>

\* Mutant of Notify: the length of the batch is sent instead of the count.
Notify_batchLen ==
    /\ pc = "notify"
    /\ reporter[dbName] = "select"
    /\ display' = [by |-> dbName, count |-> Len(batch)]
    /\ pc' = "commit"
    /\ UNCHANGED <<fsVars, dbIdx, dbName, dbVars, ticker, tickC, reporter, err,
                   exitMsg, swapVars>>

\* line 139 with line 119-120: the send on progressChan meets the receive of
\* this invocation's goroutine, which prints the count
Notify ==
    /\ pc = "notify"
    /\ reporter[dbName] = "select"
    /\ display' = [by |-> dbName, count |-> totalCount[dbName]]
    /\ pc' = "commit"
    /\ UNCHANGED <<fsVars, dbIdx, dbName, dbVars, ticker, tickC, reporter, err,
                   exitMsg, swapVars>>

\* lines 140-145: WriteSync and Close of the full batch
Commit ==
    /\ pc = "commit"
    /\ \E outcome \in {"ok", "commit batch", "close batch"} :
          /\ IF outcome = "commit batch"
             THEN UNCHANGED <<tempDir, commits>>
             ELSE /\ tempDir' = WriteSync(tempDir)
                  /\ commits' = [commits EXCEPT ![dbName] = Append(@, batch)]
          /\ IF outcome = "ok"
             THEN /\ pc' = "new_batch"
                  /\ UNCHANGED <<err, oldDB, newDB, iter, ticker, tickC>>
             ELSE Return(outcome)
    /\ UNCHANGED <<dataDir, dataDir0, tempExists, dbIdx, dbName, batch,
                   totalCount, reporter, display, exitMsg, swapVars>>

\* line 146 and the iter.Next() of line 129
FreshBatch ==
    /\ pc = "new_batch"
    /\ batch' = NewBatch
    /\ iter' = [iter EXCEPT !.pos = @ + 1]
    /\ pc' = "loop"
    /\ UNCHANGED <<fsVars, dbIdx, dbName, oldDB, newDB, totalCount, commits,
                   repVars, err, exitMsg, swapVars>>

\* Mutant of FinalCommit: an empty last batch is not committed.
FinalCommit_skipEmpty ==
    /\ pc = "loop"
    /\ ~Valid
    /\ \E outcome \in {"ok", "commit batch", "close batch"} :
          /\ IF outcome = "commit batch" \/ batch = <<>>
             THEN UNCHANGED <<tempDir, commits>>
             ELSE /\ tempDir' = WriteSync(tempDir)
                  /\ commits' = [commits EXCEPT ![dbName] = Append(@, batch)]
          /\ Return(IF outcome = "ok" THEN "nil" ELSE outcome)
    /\ UNCHANGED <<dataDir, dataDir0, tempExists, dbIdx, dbName, batch,
                   totalCount, reporter, display, exitMsg, swapVars>>

\* lines 150-160: the iterator is exhausted; WriteSync and Close of the last
\* batch, then return nil
FinalCommit ==
    /\ pc = "loop"
    /\ ~Valid
    /\ \E outcome \in {"ok", "commit batch", "close batch"} :
          /\ IF outcome = "commit batch"
             THEN UNCHANGED <<tempDir, commits>>
             ELSE /\ tempDir' = WriteSync(tempDir)
                  /\ commits' = [commits EXCEPT ![dbName] = Append(@, batch)]
          /\ Return(IF outcome = "ok" THEN "nil" ELSE outcome)
    /\ UNCHANGED <<dataDir, dataDir0, tempExists, dbIdx, dbName, batch,
                   totalCount, reporter, display, exitMsg, swapVars>>

\* ----------------------------------------------------- progress goroutine
\* progressTicker fires: a tick is buffered in progressTicker.C unless one is
\* already there
Tick(s) ==
    /\ Running
    /\ ticker[s] = "running"
    /\ ~tickC[s]
    /\ tickC' = [tickC EXCEPT ![s] = TRUE]
    /\ UNCHANGED <<fsVars, pc, dbIdx, dbName, dbVars, ticker, reporter, display,
                   err, exitMsg, swapVars>>

\* lines 121-122: the goroutine takes the tick and prints totalCount
ReporterTick(s) ==
    /\ Running
    /\ reporter[s] = "select"
    /\ tickC[s]
    /\ tickC' = [tickC EXCEPT ![s] = FALSE]
    /\ display' = [by |-> s, count |-> totalCount[s]]
    /\ UNCHANGED <<fsVars, pc, dbIdx, dbName, dbVars, ticker, reporter, err,
                   exitMsg, swapVars>>

\* -------------------------------------------------- prompt, swap, cleanup
\* os.ReadDir lists a directory sorted by file name.
NameOrder == <<"blockstore", "cs.wal", "evidence", "light-client-db", "state", "tx_index">>

ReadDirNames(dir) == SelectSeq(NameOrder, LAMBDA e : dir[e].kind # "absent")

\* Mutant of IsDir: the test is inverted.
IsDir_inverted(entry) == entry.kind = "file"

\* entry.IsDir()
IsDir(entry) == entry.kind # "file"

\* Mutant of Prompt: the swap runs whatever the answer.
Prompt_alwaysSwap ==
    /\ pc = "prompt"
    /\ \E answer \in {"yes", "no"} :
          /\ confirmed' = answer
          /\ pc' = "read_dir"
    /\ UNCHANGED <<fsVars, dbIdx, dbName, dbVars, repVars, err, exitMsg,
                   entries, staged>>

\* lines 46-47: promptYesNo returns on "y"/"yes" or "n"/"no"
Prompt ==
    /\ pc = "prompt"
    /\ \E answer \in {"yes", "no"} :
          /\ confirmed' = answer
          /\ pc' = IF answer = "yes" THEN "read_dir" ELSE "cleanup"
    /\ UNCHANGED <<fsVars, dbIdx, dbName, dbVars, repVars, err, exitMsg,
                   entries, staged>>

\* Mutant of ReadDir: the swap loop walks the entries of the live directory.
ReadDir_liveDir ==
    /\ pc = "read_dir"
    /\ \E ok \in BOOLEAN :
          IF ok
          THEN /\ entries' = ReadDirNames(dataDir)
               /\ staged' = tempDir
               /\ pc' = "swap"
               /\ UNCHANGED <<exitMsg, reporter>>
          ELSE /\ fatalf("read temp_dir")
               /\ UNCHANGED <<entries, staged>>
    /\ UNCHANGED <<fsVars, dbIdx, dbName, dbVars, ticker, tickC, display, err,
                   confirmed>>

\* lines 50-53: os.ReadDir(*tempDir)
ReadDir ==
    /\ pc = "read_dir"
    /\ \E ok \in BOOLEAN :
          IF ok
          THEN /\ entries' = ReadDirNames(tempDir)
               /\ staged' = tempDir
               /\ pc' = "swap"
               /\ UNCHANGED <<exitMsg, reporter>>
          ELSE /\ fatalf("read temp_dir")
               /\ UNCHANGED <<entries, staged>>
    /\ UNCHANGED <<fsVars, dbIdx, dbName, dbVars, ticker, tickC, display, err,
                   confirmed>>

\* lines 55-61: the next entry; files are skipped; os.Stat of the live entry
SwapNext ==
    /\ pc = "swap"
    /\ IF entries = <<>>
       THEN /\ pc' = "cleanup"
            /\ UNCHANGED entries
       ELSE IF ~IsDir(tempDir[Head(entries)])
       THEN /\ entries' = Tail(entries)
            /\ pc' = "swap"
       ELSE /\ pc' = IF dataDir[Head(entries)].kind # "absent"
                     THEN "remove" ELSE "rename"
            /\ UNCHANGED entries
    /\ UNCHANGED <<fsVars, dbIdx, dbName, dbVars, repVars, err, exitMsg,
                   confirmed, staged>>

\* lines 63-66: os.RemoveAll(destPath); a failed RemoveAll has removed what
\* it could
RemoveAll ==
    /\ pc = "remove"
    /\ \E outcome \in {"ok", "failed", "failed halfway"} :
          IF outcome = "ok"
          THEN /\ dataDir' = [dataDir EXCEPT ![Head(entries)] = NoEntry]
               /\ pc' = "rename"
               /\ UNCHANGED <<exitMsg, reporter>>
          ELSE /\ dataDir' = IF outcome = "failed" THEN dataDir
                             ELSE [dataDir EXCEPT ![Head(entries)] =
                                      [kind |-> "damaged", data |-> <<>>]]
               /\ fatalf("remove all")
    /\ UNCHANGED <<dataDir0, tempExists, tempDir, dbIdx, dbName, dbVars, ticker,
                   tickC, display, err, swapVars>>

\* Mutant of Rename: a failed rename is reported and the loop goes on.
Rename_continue ==
    /\ pc = "rename"
    /\ \E ok \in BOOLEAN :
          IF ok /\ dataDir[Head(entries)].kind = "absent"
          THEN /\ dataDir' = [dataDir EXCEPT ![Head(entries)] = tempDir[Head(entries)]]
               /\ tempDir' = [tempDir EXCEPT ![Head(entries)] = NoEntry]
               /\ entries' = Tail(entries)
               /\ pc' = "swap"
               /\ UNCHANGED <<exitMsg, reporter>>
          ELSE /\ entries' = Tail(entries)
               /\ pc' = "swap"
               /\ UNCHANGED <<dataDir, tempDir, exitMsg, reporter>>
    /\ UNCHANGED <<dataDir0, tempExists, dbIdx, dbName, dbVars, ticker, tickC,
                   display, err, confirmed, staged>>

\* lines 69-74: os.Rename(srcPath, destPath); a rename onto an existing
\* directory fails
Rename ==
    /\ pc = "rename"
    /\ \E ok \in BOOLEAN :
          IF ok /\ dataDir[Head(entries)].kind = "absent"
          THEN /\ dataDir' = [dataDir EXCEPT ![Head(entries)] = tempDir[Head(entries)]]
               /\ tempDir' = [tempDir EXCEPT ![Head(entries)] = NoEntry]
               /\ entries' = Tail(entries)
               /\ pc' = "swap"
               /\ UNCHANGED <<exitMsg, reporter>>
          ELSE /\ fatalf("rename")
               /\ UNCHANGED <<dataDir, tempDir, entries>>
    /\ UNCHANGED <<dataDir0, tempExists, dbIdx, dbName, dbVars, ticker, tickC,
                   display, err, confirmed, staged>>

\* Mutant of Cleanup: the staging directory is removed only after a swap.
Cleanup_afterSwapOnly ==
    /\ pc = "cleanup"
    /\ \E outcome \in {"ok", "failed", "failed halfway"} :
          IF outcome = "ok"
          THEN /\ tempExists' = IF confirmed = "yes" THEN FALSE ELSE tempExists
               /\ tempDir' = IF confirmed = "yes"
                             THEN [e \in EntryNames |-> NoEntry] ELSE tempDir
               /\ pc' = "done"
               /\ reporter' = [s \in DBNames |-> "none"]
               /\ UNCHANGED exitMsg
          ELSE /\ tempDir' = IF outcome = "failed" THEN tempDir
                             ELSE [e \in EntryNames |-> NoEntry]
               /\ fatalf("Failed to remove the temporary directory")
               /\ UNCHANGED tempExists
    /\ UNCHANGED <<dataDir, dataDir0, dbIdx, dbName, dbVars, ticker, tickC,
                   display, err, swapVars>>

\* lines 80-84: os.RemoveAll(*tempDir), then main returns and the process
\* exits
Cleanup ==
    /\ pc = "cleanup"
    /\ \E outcome \in {"ok", "failed", "failed halfway"} :
          IF outcome = "ok"
          THEN /\ tempExists' = FALSE
               /\ tempDir' = [e \in EntryNames |-> NoEntry]
               /\ pc' = "done"
               /\ reporter' = [s \in DBNames |-> "none"]
               /\ UNCHANGED exitMsg
          ELSE /\ tempDir' = IF outcome = "failed" THEN tempDir
                             ELSE [e \in EntryNames |-> NoEntry]
               /\ fatalf("Failed to remove the temporary directory")
               /\ UNCHANGED tempExists
    /\ UNCHANGED <<dataDir, dataDir0, dbIdx, dbName, dbVars, ticker, tickC,
                   display, err, swapVars>>

\* ------------------------------------------------------------------ Spec
Next ==
    \/ MkdirAll
    \/ RangeNext
    \/ StatLight
    \/ CheckErr
    \/ OpenOld
    \/ OpenNew
    \/ Iterator
    \/ StartReporter
    \/ LoopBody
    \/ Notify
    \/ Commit
    \/ FreshBatch
    \/ FinalCommit
    \/ \E s \in DBNames : Tick(s)
    \/ \E s \in DBNames : ReporterTick(s)
    \/ Prompt
    \/ ReadDir
    \/ SwapNext
    \/ RemoveAll
    \/ Rename
    \/ Cleanup

Spec == Init /\ [][Next]_vars

\* The steps of the main goroutine.  It is the only goroutine that is ever
\* runnable without waiting for another, and the Go scheduler runs it.
MainStep ==
    \/ MkdirAll \/ RangeNext \/ StatLight \/ CheckErr \/ OpenOld \/ OpenNew
    \/ Iterator \/ StartReporter \/ LoopBody \/ Notify \/ Commit \/ FreshBatch
    \/ FinalCommit \/ Prompt \/ ReadDir \/ SwapNext \/ RemoveAll \/ Rename
    \/ Cleanup

FairSpec == Init /\ [][Next]_vars /\ WF_vars(MainStep)

TypeOK ==
    /\ pc \in {"mkdir", "range", "stat_light", "check_err", "open_old",
               "open_new", "iterator", "start", "loop", "notify", "commit",
               "new_batch", "prompt", "read_dir", "swap", "remove", "rename",
               "cleanup", "done", "failed"}
    /\ dbIdx \in 0..Len(cometBFTDatabases)
    /\ confirmed \in {"unasked", "yes", "no"}
    /\ \A s \in DBNames : totalCount[s] \in 0..MaxRecords

\* ================================================================ claims
\* migrateDB has just returned nil for the store dbName.
Returned == pc = "check_err" /\ err = "nil"

\* The source store of the current migration and its destination.
Source == dataDir[dbName].data

Destination == tempDir[dbName].data

RECURSIVE Concat(_)
Concat(ss) == IF ss = <<>> THEN <<>> ELSE Head(ss) \o Concat(Tail(ss))

IsPrefix(p, q) == Len(p) <= Len(q) /\ \A i \in 1..Len(p) : p[i] = q[i]

\* C1 - Completeness: when migrateDB returns without error, the destination
\* store holds every source record under the identical key with the identical
\* value, and holds no key that is not in the source.
C1_Completeness ==
    Returned =>
        /\ \A k \in DOMAIN Source :
              k \in DOMAIN Destination /\ Destination[k] = Source[k]
        /\ DOMAIN Destination \subseteq DOMAIN Source

\* A store of two full batches and one more record has been migrated.
C1_Witness ==
    /\ Returned
    /\ Cardinality(DOMAIN Source) = MaxRecords
    /\ Cardinality(DOMAIN Destination) = MaxRecords

\* C2 - Batch boundaries: for a source of n = Threshold*k + r records
\* (0 <= r < Threshold), a migrateDB that returns without error has made
\* exactly k commits of Threshold records each, followed by exactly one
\* commit of r records, also when r = 0; an empty source gives one empty
\* commit and no destination record.
C2_BatchBoundaries ==
    Returned =>
        LET n == Cardinality(DOMAIN Source)
            k == n \div Threshold
            r == n % Threshold
            cs == commits[dbName]
        IN /\ Len(cs) = k + 1
           /\ \A i \in 1..k : Len(cs[i]) = Threshold
           /\ Len(cs[k + 1]) = r
           /\ n = 0 => cs = << <<>> >> /\ DOMAIN Destination = {}

\* A store of exactly two full batches has been migrated: the third commit
\* is the empty one.
C2_Witness ==
    /\ Returned
    /\ Cardinality(DOMAIN Source) = 2 * Threshold
    /\ Len(commits[dbName]) = 3
    /\ commits[dbName][3] = <<>>

\* C3 - Order preservation: the committed batches of a store, concatenated in
\* commit order, are at every moment a prefix of the source's iteration
\* sequence, and are that whole sequence when migrateDB returns without error.
C3_OrderPreserved ==
    /\ \A s \in DBNames :
          IsPrefix(Concat(commits[s]), Records(dataDir0[s].data))
    /\ Returned => Concat(commits[dbName]) = Records(Source)

\* A store with several commits has been migrated.
C3_Witness ==
    /\ Returned
    /\ Len(commits[dbName]) = MaxBatches + 1
    /\ Len(Concat(commits[dbName])) = MaxRecords

\* ------------------------------------------------------- orchestration
Terminated == pc \in {"done", "failed"}

TempGone == ~tempExists /\ \A e \in EntryNames : tempDir[e] = NoEntry

\* C4 as stated - declined confirmation: in every run in which the operator
\* answered no, at termination the live directory is as it was before the
\* run and the staging directory no longer exists.
C4_DeclinedOriginal ==
    (Terminated /\ confirmed = "no") => (dataDir = dataDir0 /\ TempGone)

\* C4 as amended - after the operator answered no the live directory is, up
\* to and at termination (Done or Failed), as it was before the run; the
\* staging directory no longer exists when the run reaches Done.
C4_Declined ==
    /\ confirmed = "no" => dataDir = dataDir0
    /\ (pc = "done" /\ confirmed = "no") => TempGone

\* The run is Done after a no, with the light-client store migrated too.
C4_Witness ==
    /\ pc = "done"
    /\ confirmed = "no"
    /\ commits[lightClientDBName] # <<>>
    /\ dataDir = dataDir0

\* C5 - confirmed swap: when the run reaches Done after a yes, every entry
\* the staging directory held is in the live directory under its name with
\* exactly the staged content (nothing of the former live entry is left), and
\* the staging directory no longer exists.
C5_SwapCorrect ==
    (pc = "done" /\ confirmed = "yes") =>
        /\ \A e \in EntryNames :
              staged[e].kind # "absent" => dataDir[e] = staged[e]
        /\ TempGone

\* Done after a yes: five stores were staged and replaced live ones.
C5_Witness ==
    /\ pc = "done"
    /\ confirmed = "yes"
    /\ \A s \in DBNames :
          /\ staged[s].kind = PebbleDBBackend
          /\ dataDir0[s].kind = oldDBBackend
          /\ dataDir[s] = staged[s]

SwapList == ReadDirNames(staged)

CommitFailed == err = "commit batch"

\* C9 - fatal on commit failure: once a commit has failed, no further record
\* is read or added, no store is started, nothing is committed, the prompt,
\* the swap and the cleanup never run, the live directory is as before the
\* run, and the run ends Failed.
C9_CommitFailureFatal ==
    /\ [](CommitFailed =>
             /\ pc \in {"check_err", "failed"}
             /\ dataDir = dataDir0
             /\ confirmed = "unasked"
             /\ tempExists)
    /\ [][CommitFailed =>
             /\ pc' \in {"check_err", "failed"}
             /\ UNCHANGED <<iter, batch, totalCount, commits, dbIdx, dbName,
                            fsVars, swapVars, err>>]_vars
    /\ (CommitFailed ~> pc = "failed")

\* The second commit of a store failed after the first succeeded, and the
\* run has ended.
C9_Witness ==
    /\ CommitFailed
    /\ pc = "failed"
    /\ Len(commits[dbName]) = 1
    /\ totalCount[dbName] = 2 * Threshold
    /\ Valid

\* ---------------------------------------------------------------- reporter
Alive == {s \in DBNames : reporter[s] = "select"}

\* C10 - reporter teardown: at most one progress goroutine is alive, it is
\* the one of the store being migrated, and none is alive once migrateDB has
\* returned: not when the next store starts, not at the prompt.
C10_ReporterTeardown ==
    /\ Cardinality(Alive) <= 1
    /\ Alive \subseteq {dbName}
    /\ pc \in {"prompt", "read_dir", "swap", "remove", "rename", "cleanup"}
          => Alive = {}

\* ------------------------------------------------------------- data race
\* The goroutine's next step can be the plain read of totalCount of line
\* 122: it waits in select and a tick is ready.
ReadsCount(s) == Running /\ reporter[s] = "select" /\ tickC[s]

\* The main goroutine's next step is the plain totalCount++ of line 137 of
\* the invocation for store s.
WritesCount(s) == s = dbName /\ pc = "loop" /\ Valid

\* C11 - no data race on the record count: in no reachable state are the
\* Reporter's read of the count and the Migrator's write of it both ready to
\* run next, unordered by a channel handoff (neither access is atomic:
\* totalCount is a plain int).
C11_NoDataRace ==
    \A s \in DBNames : ~(ReadsCount(s) /\ WritesCount(s))

\* ---------------------------------------------------------- state machine
\* The state of the run, in the terms of the orchestrator's state machine.
Phase ==
    CASE pc = "mkdir" -> "Staging"
      [] pc \in {"range", "stat_light", "check_err", "open_old", "open_new",
                 "iterator", "start", "loop", "notify", "commit", "new_batch"}
            -> "MigratingStore"
      [] pc = "prompt" -> "Confirming"
      [] pc \in {"read_dir", "swap", "remove", "rename"} -> "Swapping"
      [] pc = "cleanup" -> "CleaningUp"
      [] pc = "done" -> "Done"
      [] OTHER -> "Failed"

\* migrateDB has returned nil for store s: its records are staged.
MigratedOK(s) ==
    /\ tempDir[s].kind = PebbleDBBackend
    /\ tempDir[s].data = dataDir0[s].data
    /\ commits[s] # <<>>

\* C12 - run state machine: a run goes Staging, MigratingStore, Confirming,
\* then Swapping (after a yes) or straight on (after a no), CleaningUp, Done;
\* the stores are taken one at a time in the order blockstore, state,
\* tx_index, evidence (then the light client), each after the one before it
\* was migrated without error; the prompt is reached only when all four are
\* migrated; the cleanup runs only after the swap loop has ended or was
\* skipped; an error leads from any state directly to Failed; and no step is
\* taken from Failed or Done.
C12_StateMachine ==
    /\ [][Phase' # Phase =>
             \/ Phase' = "Failed"
             \/ <<Phase, Phase'>> \in
                   {<<"Staging", "MigratingStore">>,
                    <<"MigratingStore", "Confirming">>,
                    <<"Swapping", "CleaningUp">>,
                    <<"CleaningUp", "Done">>}
             \/ Phase = "Confirming" /\ Phase' = "Swapping" /\ confirmed' = "yes"
             \/ Phase = "Confirming" /\ Phase' = "CleaningUp" /\ confirmed' = "no"]_vars
    /\ [][Running]_vars
    /\ [][dbName' # dbName =>
             /\ <<dbName, dbName'>> \in
                   {<<"", "blockstore">>, <<"blockstore", "state">>,
                    <<"state", "tx_index">>, <<"tx_index", "evidence">>,
                    <<"evidence", lightClientDBName>>}
             /\ err = "nil"
             /\ oldDB = "closed" /\ newDB = "closed"
             /\ dbName # "" => MigratedOK(dbName)]_vars
    /\ [](pc = "prompt" =>
             /\ err = "nil"
             /\ \A i \in 1..Len(cometBFTDatabases) : MigratedOK(cometBFTDatabases[i]))
    /\ [](pc = "cleanup" =>
             \/ confirmed = "no"
             \/ confirmed = "yes" /\ entries = <<>>)
    /\ [](pc = "failed" => exitMsg # "")

\* A run that went through every state: Done after a yes, the light-client
\* store having been the last one migrated.
C12_Witness ==
    /\ pc = "done"
    /\ confirmed = "yes"
    /\ dbName = lightClientDBName
    /\ dbIdx = Len(cometBFTDatabases)
    /\ exitMsg = ""

\* ---------------------------------------------------------------- restart
\* The operator runs the tool again after a run that fatalf ended during a
\* store's migration ("Please fix the error and restart.", lines 32, 41).
\* The new process starts from main's first line; the two directories are as
\* the aborted run left them.
Restart ==
    /\ pc = "failed"
    /\ exitMsg = "Failed to migrate"
    /\ pc' = "mkdir"
    /\ dataDir0' = dataDir
    /\ dbIdx' = 0
    /\ dbName' = ""
    /\ oldDB' = "closed"
    /\ newDB' = "closed"
    /\ iter' = [open |-> FALSE, keys |-> <<>>, pos |-> 1]
    /\ batch' = <<>>
    /\ totalCount' = [s \in DBNames |-> 0]
    /\ ticker' = [s \in DBNames |-> "none"]
    /\ tickC' = [s \in DBNames |-> FALSE]
    /\ reporter' = [s \in DBNames |-> "none"]
    /\ display' = [by |-> "", count |-> 0]
    /\ err' = "nil"
    /\ exitMsg' = ""
    /\ confirmed' = "unasked"
    /\ entries' = <<>>
    /\ commits' = [s \in DBNames |-> <<>>]
    /\ staged' = [e \in EntryNames |-> NoEntry]
    /\ UNCHANGED <<dataDir, tempExists, tempDir>>

RestartNext == Next \/ Restart

RestartSpec == Init /\ [][RestartNext]_vars

\* C13 - restart into a cleared staging location: whenever migrateDB is
\* about to open the destination store of a name (line 94), the staging
\* directory holds no record for that name.
C13_ClearedStaging ==
    pc = "open_new" => DOMAIN tempDir[dbName].data = {}

\* ------------------------------------------------------------ termination
\* The Migrator is in the copy loop of migrateDB (lines 107-155).
Copying == pc \in {"start", "loop", "notify", "commit", "new_batch"}

\* C14 - the handoff never deadlocks and migrateDB terminates: whenever the
\* Migrator is at the send of line 139 its goroutine is waiting in select and
\* the only step the Migrator takes from there is the accepted notification;
\* every migrateDB that is copying eventually returns (so every notification
\* is eventually accepted), having made its final commit when it returns
\* without error.
C14_HandoffTerminates ==
    /\ [](pc = "notify" => reporter[dbName] = "select")
    /\ [][pc = "notify" /\ pc' # pc =>
             pc' = "commit" /\ display' = [by |-> dbName, count |-> totalCount[dbName]]]_vars
    /\ Copying ~>
          (/\ pc = "check_err"
           /\ err = "nil" =>
                 Len(commits[dbName]) = (Len(iter.keys) \div Threshold) + 1)

\* A store of several batches has been migrated to the end; the last line
\* printed is the last notification.
C14_Witness ==
    /\ pc = "check_err"
    /\ err = "nil"
    /\ Len(commits[dbName]) = MaxBatches + 1
    /\ display = [by |-> dbName, count |-> MaxBatches * Threshold]

\* ---------------------------------------------------------------- handles
HandlesClosed == oldDB = "closed" /\ newDB = "closed" /\ ~iter.open

\* C15 - handles are released between stores: a handle is open only while
\* the migrateDB of one store is between its open and its return; when
\* migrateDB has returned, with or without error, when the next store's
\* migrateDB is about to open its source, at the prompt and after, and when
\* the run has ended, the iterator, the destination handle and the source
\* handle are all closed.  Inside migrateDB the destination is open only
\* with the source, the iterator only with both.
C15_HandlesReleased ==
    /\ pc \notin {"open_new", "iterator", "start", "loop", "notify", "commit",
                  "new_batch"} => HandlesClosed
    /\ newDB = "open" => oldDB = "open"
    /\ iter.open => newDB = "open"

\* migrateDB of the third store returned an error after it had opened both
\* stores.
C15_Witness ==
    /\ pc = "check_err"
    /\ err = "iterator"
    /\ dbName = "tx_index"
    /\ HandlesClosed

\* ------------------------------------------------------------ light client
LightClientExists == dataDir0[lightClientDBName].kind # "absent"

MigrationState ==
    \/ Phase = "MigratingStore"
    \/ pc = "prompt"
    \/ pc = "failed" /\ exitMsg = "Failed to migrate"

\* C18 - crash-consistent commit boundaries: in every state of a migration,
\* the state after an error included, the destination of each store holds
\* exactly the records of its succeeded commits, and these are the first
\* Threshold * j records of the source order after j intermediate commits,
\* or all n records after the final commit (the commit number n \div
\* Threshold + 1); the open batch never holds more than Threshold records,
\* and between commits it holds the records that follow the committed ones.
C18_CommitBoundaries ==
    MigrationState =>
        /\ \A s \in DBNames :
              LET src == Records(dataDir0[s].data)
                  n == Len(src)
                  j == Len(commits[s])
                  c == Concat(commits[s])
              IN /\ IF j <= n \div Threshold
                    THEN Len(c) = Threshold * j
                    ELSE j = (n \div Threshold) + 1 /\ Len(c) = n
                 /\ c = SubSeq(src, 1, Len(c))
                 /\ DOMAIN tempDir[s].data = {c[i].key : i \in 1..Len(c)}
                 /\ \A i \in 1..Len(c) : tempDir[s].data[c[i].key] = c[i].value
        /\ Len(batch) <= Threshold
        /\ pc = "loop" \/ (pc \in {"check_err", "failed"} /\ err = "batch set") =>
              LET src == Records(dataDir0[dbName].data)
                  done == Len(Concat(commits[dbName]))
              IN /\ Len(batch) < Threshold
                 /\ batch = SubSeq(src, done + 1, done + Len(batch))

\* A Set has failed after one commit, with a batch one record short of the
\* threshold: the destination holds the first Threshold records.
C18_Witness ==
    /\ pc = "failed"
    /\ err = "batch set"
    /\ Len(commits[dbName]) = 1
    /\ Len(batch) = Threshold - 1
    /\ Cardinality(DOMAIN tempDir[dbName].data) = Threshold

\* ---------------------------------------------------------------- progress
\* C19 - displayed progress is sound and monotone, each read of the count
\* being one step: the count of a store is the number of records added to its
\* batches so far, never decreases and never exceeds the number of records of
\* the source; the display changes only when the goroutine of a store prints
\* after a notification or a tick, and what it prints is the count of that
\* store at that moment; so the displayed count is at most the count of the
\* store it names, and a line that follows a line of the same store does not
\* show a smaller count.
C19_ProgressSound ==
    /\ [](\A s \in DBNames :
            totalCount[s] <= Cardinality(DOMAIN dataDir0[s].data))
    /\ [](pc = "loop" => totalCount[dbName] = iter.pos - 1)
    /\ [](display.by \in DBNames => display.count <= totalCount[display.by])
    /\ [][\A s \in DBNames : totalCount'[s] >= totalCount[s]]_vars
    /\ [][pc = "notify" /\ pc' # pc =>
            display' = [by |-> dbName, count |-> totalCount'[dbName]]]_vars
    /\ [][\A s \in DBNames : pc' = pc /\ tickC[s] /\ ~tickC'[s] =>
            display' = [by |-> s, count |-> totalCount'[s]]]_vars
    /\ [][display' # display =>
            /\ reporter[display'.by] = "select"
            /\ \/ pc = "notify" /\ pc' # pc /\ display'.by = dbName
               \/ pc' = pc /\ tickC[display'.by] /\ ~tickC'[display'.by]]_vars
    /\ [][display'.by = display.by => display'.count >= display.count]_vars

\* A tick has shown a count between two thresholds and the Migrator has gone
\* on since.
C19_Witness ==
    /\ dbName \in DBNames
    /\ reporter[dbName] = "select"
    /\ display = [by |-> dbName, count |-> Threshold + 1]
    /\ totalCount[dbName] = Threshold + 2

\* -------------------------------------------------------------- swap frame
\* The staging directory held a directory of this name when the swap began.
StagedDir(e) == staged[e].kind # "absent" /\ IsDir(staged[e])

\* C20 - swap frame: after a yes, a step changes a live entry only if it is
\* the entry the swap loop is at and the staging directory holds a directory
\* of that name; a step that removes a live entry leaves the loop at the
\* rename of the staged directory of the same name; and every live entry
\* without a staged directory of its name is as it was when the run began.
C20_SwapFrame ==
    /\ [][confirmed = "yes" =>
            \A e \in EntryNames : dataDir'[e] # dataDir[e] =>
                /\ pc \in {"remove", "rename"}
                /\ entries # <<>>
                /\ e = Head(entries)
                /\ StagedDir(e)
                /\ tempDir[e] = staged[e]]_vars
    /\ [][\A e \in EntryNames :
            dataDir[e] # NoEntry /\ dataDir'[e] = NoEntry =>
                /\ confirmed = "yes"
                /\ pc = "remove" /\ pc' = "rename"
                /\ Head(entries') = e
                /\ StagedDir(e)
                /\ tempDir'[e] = staged[e]]_vars
    /\ [](confirmed = "yes" =>
            \A e \in EntryNames : ~StagedDir(e) => dataDir[e] = dataDir0[e])

\* A confirmed swap has replaced a store and has left the file of the live
\* directory that no staged directory is named after.
C20_Witness ==
    /\ pc = "done"
    /\ confirmed = "yes"
    /\ dataDir0[OtherEntry].kind = "file"
    /\ dataDir[OtherEntry] = dataDir0[OtherEntry]
    /\ ~StagedDir(OtherEntry)
    /\ dataDir["blockstore"] = staged["blockstore"]
    /\ dataDir["blockstore"] # dataDir0["blockstore"]

====
